---- MODULE Spec2Model ----
(***************************************************************************)
(* Model of openvidu-node-client/src/Session.ts: the Session handle, its   *)
(* sessionId cell, and the request/response lifecycle of getSessionId and  *)
(* generateToken over Node's https client and the Promise each returns.    *)
(***************************************************************************)
EXTENDS Integers, Sequences, FiniteSets, TLC

(* ------------------------------------------------------------------ *)
(* Bounds                                                              *)
(* ------------------------------------------------------------------ *)

\* Number of getSessionId / generateToken invocations made on the handle.
MaxCalls == 2

(* ------------------------------------------------------------------ *)
(* JavaScript values                                                   *)
(* ------------------------------------------------------------------ *)

Undefined == [t |-> "undefined"]

Str(s) == [t |-> "string", s |-> s]

\* An Error-like object: its constructor name and its message.
ErrorObject(name, message) == [t |-> "error", name |-> name, message |-> message]

\* The !!v coercion: undefined and the empty string are falsy.
Truthy(v) == /\ v # Undefined
             /\ v # Str("")

Digit == <<"0", "1", "2", "3", "4", "5", "6", "7", "8", "9">>

RECURSIVE NumberToString(_)
\* String(n) for a non-negative integer, in decimal.
NumberToString(n) ==
    IF n < 10 THEN Digit[n + 1]
    ELSE NumberToString(n \div 10) \o Digit[(n % 10) + 1]

\* new Error(res.statusCode): the message is the argument converted to a string.
NewError(statusCode) == ErrorObject("Error", NumberToString(statusCode))

(* ------------------------------------------------------------------ *)
(* Program constants                                                   *)
(* ------------------------------------------------------------------ *)

API_SESSIONS == "/api/sessions"
API_TOKENS == "/api/tokens"

StatusOK == 200

ROUTED == Str("ROUTED")
MANUAL == Str("MANUAL")
BEST_FIT == Str("BEST_FIT")
PUBLISHER == Str("PUBLISHER")

(* ------------------------------------------------------------------ *)
(* The remote side: what the server and the transport may deliver      *)
(* ------------------------------------------------------------------ *)

\* Identifiers the server hands out.
Ids == {"A", "B"}

\* A response body is a sequence of pieces of text; a 'data' event carries
\* one or more consecutive pieces, and the text is their concatenation.
ObjectHead(s) == "{\"id\":\"" \o s \o "\""
ObjectTail == "}"
EmptyObjectText == "{}"
NullLiteral == "null"

ObjectWithId(s) == <<ObjectHead(s), ObjectTail>>
EmptyObject == <<EmptyObjectText>>
TruncatedObject(s) == <<ObjectHead(s)>>
NullBody == <<NullLiteral>>

Bodies == {ObjectWithId(s) : s \in Ids}
            \cup {EmptyObject, TruncatedObject("A"), NullBody}

StatusBadRequest == 400

\* What the server may answer: any body with 200; with 400 a body that is
\* not JSON.
Responses ==
    {[statusCode |-> StatusOK, body |-> b] : b \in Bodies}
      \cup {[statusCode |-> StatusBadRequest, body |-> TruncatedObject("A")]}

TransportErrors == {ErrorObject("Error", "ECONNREFUSED"),
                    ErrorObject("Error", "ECONNRESET")}

RECURSIVE Concat(_)
\* The text made of the pieces of a sequence, in order.
Concat(pieces) ==
    IF pieces = <<>> THEN ""
    ELSE Head(pieces) \o Concat(Tail(pieces))

\* JSON.parse(text): an object (with or without an id member), null, or a
\* SyntaxError for any other text.
JSONParse(text) ==
    IF \E s \in Ids : text = ObjectHead(s) \o ObjectTail
      THEN [ok |-> TRUE, kind |-> "object",
            id |-> Str(CHOOSE s \in Ids : text = ObjectHead(s) \o ObjectTail)]
    ELSE IF text = EmptyObjectText
      THEN [ok |-> TRUE, kind |-> "object", id |-> Undefined]
    ELSE IF text = NullLiteral
      THEN [ok |-> TRUE, kind |-> "null", id |-> Undefined]
    ELSE [ok |-> FALSE, kind |-> "SyntaxError", id |-> Undefined]

(* ------------------------------------------------------------------ *)
(* Caller inputs                                                       *)
(* ------------------------------------------------------------------ *)

EmptyProperties ==
    [mediaMode |-> Undefined, recordingMode |-> Undefined,
     defaultRecordingLayout |-> Undefined, defaultCustomLayout |-> Undefined]

\* new Session(hostname, port, basicAuth, properties?): an absent properties
\* argument becomes {}.
Constructor(arg) == IF arg = Undefined THEN EmptyProperties ELSE arg

\* The properties argument: absent, {}, partly or fully supplied.
FullProperties ==
    [mediaMode |-> Str("RELAYED"), recordingMode |-> Str("ALWAYS"),
     defaultRecordingLayout |-> Str("CUSTOM"),
     defaultCustomLayout |-> Str("layout1")]

PropertiesInputs ==
    {Undefined, EmptyProperties, FullProperties,
     [EmptyProperties EXCEPT !.mediaMode = Str("RELAYED"),
                             !.defaultCustomLayout = Str("layout1")],
     [EmptyProperties EXCEPT !.recordingMode = Str("ALWAYS"),
                             !.defaultRecordingLayout = Str("CUSTOM"),
                             !.defaultCustomLayout = Str("")]}

\* The tokenOptions argument: absent, {} or fully supplied.
NoOptions == Undefined
EmptyOptions == [t |-> "object", role |-> Undefined, data |-> Undefined]
FullOptions == [t |-> "object", role |-> Str("SUBSCRIBER"), data |-> Str("d")]

TokenOptionsInputs == {NoOptions, EmptyOptions, FullOptions}

(* ------------------------------------------------------------------ *)
(* State                                                               *)
(* ------------------------------------------------------------------ *)

VARIABLES
    sessionId,    \* Session.sessionId
    properties,   \* Session.properties
    calls,        \* one record per invocation, in invocation order
    network,      \* requests written to the wire, in send order
    processed,    \* calls whose 'end' event has been dispatched, in order
    crashed       \* an uncaught exception has terminated the process

vars == <<sessionId, properties, calls, network, processed, crashed>>

(* ------------------------------------------------------------------ *)
(* Promise                                                             *)
(* ------------------------------------------------------------------ *)

PendingPromise == [state |-> "pending", value |-> Undefined]

\* resolve(v): only the first settlement of a promise has an effect.
PromiseResolve(p, v) ==
    IF p.state = "pending" THEN [state |-> "fulfilled", value |-> v] ELSE p

\* A reject that settles again a promise that is already settled.
PromiseRejectAgain(p, e) == [state |-> "rejected", value |-> e]

\* reject(e)
PromiseReject(p, e) ==
    IF p.state = "pending" THEN [state |-> "rejected", value |-> e] ELSE p

Settled(p) == p.state # "pending"

(* ------------------------------------------------------------------ *)
(* getSessionId                                                        *)
(* ------------------------------------------------------------------ *)

\* !!v ? v : d
OrDefault(v, d) == IF Truthy(v) THEN v ELSE d

\* A request body that always carries the defaults.
SessionRequestBodyDefaultsOnly(props) ==
    [mediaMode |-> ROUTED, recordingMode |-> MANUAL,
     defaultRecordingLayout |-> BEST_FIT, defaultCustomLayout |-> Str("")]

SessionRequestBody(props) ==
    [mediaMode |-> OrDefault(props.mediaMode, ROUTED),
     recordingMode |-> OrDefault(props.recordingMode, MANUAL),
     defaultRecordingLayout |-> OrDefault(props.defaultRecordingLayout, BEST_FIT),
     defaultCustomLayout |-> OrDefault(props.defaultCustomLayout, Str(""))]

\* An executor without the cached branch.
GetSessionIdExecutorNoCache(sid, props) ==
    [promise |-> PendingPromise, send |-> TRUE, path |-> API_SESSIONS,
     requestBody |-> SessionRequestBody(props)]

\* The synchronous part of getSessionId: the promise executor.  The cached
\* branch resolves and then falls through to the request code.
GetSessionIdExecutor(sid, props) ==
    [promise |-> IF Truthy(sid) THEN PromiseResolve(PendingPromise, sid)
                 ELSE PendingPromise,
     send |-> TRUE,
     path |-> API_SESSIONS,
     requestBody |-> SessionRequestBody(props)]

\* An 'end' listener that keeps an identifier that is already cached.
GetSessionIdOnEndFirstWins(sid, c) ==
    IF c.statusCode = StatusOK
      THEN LET parsed == JSONParse(c.body) IN
           IF ~parsed.ok
             THEN [sessionId |-> sid, promise |-> c.promise, parsed |-> TRUE,
                   thrown |-> ErrorObject("SyntaxError", "JSON.parse")]
           ELSE IF parsed.kind = "null"
             THEN [sessionId |-> sid, promise |-> c.promise, parsed |-> TRUE,
                   thrown |-> ErrorObject("TypeError", "id of null")]
           ELSE [sessionId |-> IF Truthy(sid) THEN sid ELSE parsed.id,
                 promise |-> PromiseResolve(c.promise, parsed.id),
                 parsed |-> TRUE, thrown |-> Undefined]
      ELSE [sessionId |-> sid,
            promise |-> PromiseReject(c.promise, NewError(c.statusCode)),
            parsed |-> FALSE, thrown |-> Undefined]

\* An 'end' listener that forgets the cached identifier when the server
\* refuses the request.
GetSessionIdOnEndClearsOnFailure(sid, c) ==
    IF c.statusCode = StatusOK
      THEN LET parsed == JSONParse(c.body) IN
           IF ~parsed.ok
             THEN [sessionId |-> sid, promise |-> c.promise, parsed |-> TRUE,
                   thrown |-> ErrorObject("SyntaxError", "JSON.parse")]
           ELSE IF parsed.kind = "null"
             THEN [sessionId |-> sid, promise |-> c.promise, parsed |-> TRUE,
                   thrown |-> ErrorObject("TypeError", "id of null")]
           ELSE [sessionId |-> parsed.id,
                 promise |-> PromiseResolve(c.promise, parsed.id),
                 parsed |-> TRUE, thrown |-> Undefined]
      ELSE [sessionId |-> Undefined,
            promise |-> PromiseReject(c.promise, NewError(c.statusCode)),
            parsed |-> FALSE, thrown |-> Undefined]

\* res.on('end') of getSessionId.
GetSessionIdOnEnd(sid, c) ==
    IF c.statusCode = StatusOK
      THEN LET parsed == JSONParse(c.body) IN
           IF ~parsed.ok
             THEN [sessionId |-> sid, promise |-> c.promise, parsed |-> TRUE,
                   thrown |-> ErrorObject("SyntaxError", "JSON.parse")]
           ELSE IF parsed.kind = "null"
             THEN [sessionId |-> sid, promise |-> c.promise, parsed |-> TRUE,
                   thrown |-> ErrorObject("TypeError", "id of null")]
           ELSE [sessionId |-> parsed.id,
                 promise |-> PromiseResolve(c.promise, parsed.id),
                 parsed |-> TRUE, thrown |-> Undefined]
      ELSE [sessionId |-> sid,
            promise |-> PromiseReject(c.promise, NewError(c.statusCode)),
            parsed |-> FALSE, thrown |-> Undefined]

(* ------------------------------------------------------------------ *)
(* generateToken                                                       *)
(* ------------------------------------------------------------------ *)

\* A request body that always carries the default role and data.
TokenRequestBodyDefaultsOnly(sid, tokenOptions) ==
    IF sid = Undefined
      THEN [k \in {"role", "data"} |-> IF k = "role" THEN PUBLISHER ELSE Str("")]
      ELSE [k \in {"session", "role", "data"} |->
              IF k = "session" THEN sid
              ELSE IF k = "role" THEN PUBLISHER ELSE Str("")]

\* JSON.stringify drops a member whose value is undefined.
TokenRequestBody(sid, tokenOptions) ==
    LET role == OrDefault(tokenOptions.role, PUBLISHER)
        data == OrDefault(tokenOptions.data, Str(""))
    IN  IF sid = Undefined
          THEN [k \in {"role", "data"} |-> IF k = "role" THEN role ELSE data]
          ELSE [k \in {"session", "role", "data"} |->
                  IF k = "session" THEN sid
                  ELSE IF k = "role" THEN role ELSE data]

\* An executor that checks locally that a session identifier is known.
GenerateTokenExecutorValidates(sid, tokenOptions) ==
    IF tokenOptions = Undefined
      THEN [promise |-> PromiseReject(PendingPromise,
                            ErrorObject("TypeError", "role of undefined")),
            send |-> FALSE, path |-> API_TOKENS, requestBody |-> <<>>]
    ELSE IF ~Truthy(sid)
      THEN [promise |-> PromiseReject(PendingPromise,
                            ErrorObject("Error", "no sessionId")),
            send |-> FALSE, path |-> API_TOKENS, requestBody |-> <<>>]
    ELSE [promise |-> PendingPromise,
          send |-> TRUE, path |-> API_TOKENS,
          requestBody |-> TokenRequestBody(sid, tokenOptions)]

\* An executor that applies the defaults when the argument is absent.
GenerateTokenExecutorDefaults(sid, tokenOptions) ==
    [promise |-> PendingPromise,
     send |-> TRUE, path |-> API_TOKENS,
     requestBody |->
        TokenRequestBody(sid, IF tokenOptions = Undefined
                                THEN [t |-> "object", role |-> Undefined,
                                      data |-> Undefined]
                                ELSE tokenOptions)]

\* An executor that leaves the session reference out of the body.
GenerateTokenExecutorOmitsSession(sid, tokenOptions) ==
    IF tokenOptions = Undefined
      THEN [promise |-> PromiseReject(PendingPromise,
                            ErrorObject("TypeError", "role of undefined")),
            send |-> FALSE, path |-> API_TOKENS, requestBody |-> <<>>]
      ELSE [promise |-> PendingPromise,
            send |-> TRUE, path |-> API_TOKENS,
            requestBody |-> TokenRequestBody(Undefined, tokenOptions)]

\* The promise executor of generateToken.  Reading .role of an absent
\* argument throws inside the executor, which rejects the promise.
GenerateTokenExecutor(sid, tokenOptions) ==
    IF tokenOptions = Undefined
      THEN [promise |-> PromiseReject(PendingPromise,
                            ErrorObject("TypeError", "role of undefined")),
            send |-> FALSE, path |-> API_TOKENS, requestBody |-> <<>>]
      ELSE [promise |-> PendingPromise,
            send |-> TRUE, path |-> API_TOKENS,
            requestBody |-> TokenRequestBody(sid, tokenOptions)]

\* An 'end' listener of generateToken that also stores the id it received.
GenerateTokenOnEndStoresId(sid, c) ==
    IF c.statusCode = StatusOK
      THEN LET parsed == JSONParse(c.body) IN
           IF ~parsed.ok
             THEN [sessionId |-> sid, promise |-> c.promise, parsed |-> TRUE,
                   thrown |-> ErrorObject("SyntaxError", "JSON.parse")]
           ELSE IF parsed.kind = "null"
             THEN [sessionId |-> sid, promise |-> c.promise, parsed |-> TRUE,
                   thrown |-> ErrorObject("TypeError", "id of null")]
           ELSE [sessionId |-> parsed.id,
                 promise |-> PromiseResolve(c.promise, parsed.id),
                 parsed |-> TRUE, thrown |-> Undefined]
      ELSE [sessionId |-> sid,
            promise |-> PromiseReject(c.promise, NewError(c.statusCode)),
            parsed |-> FALSE, thrown |-> Undefined]

\* An 'end' listener of generateToken that parses the body before it looks
\* at the status.
GenerateTokenOnEndParsesFirst(sid, c) ==
    LET parsed == JSONParse(c.body) IN
    IF ~parsed.ok
      THEN [sessionId |-> sid, promise |-> c.promise, parsed |-> TRUE,
            thrown |-> ErrorObject("SyntaxError", "JSON.parse")]
    ELSE IF parsed.kind = "null"
      THEN [sessionId |-> sid, promise |-> c.promise, parsed |-> TRUE,
            thrown |-> ErrorObject("TypeError", "id of null")]
    ELSE IF c.statusCode = StatusOK
      THEN [sessionId |-> sid,
            promise |-> PromiseResolve(c.promise, parsed.id),
            parsed |-> TRUE, thrown |-> Undefined]
    ELSE [sessionId |-> sid,
          promise |-> PromiseReject(c.promise, NewError(c.statusCode)),
          parsed |-> TRUE, thrown |-> Undefined]

\* res.on('end') of generateToken.
GenerateTokenOnEnd(sid, c) ==
    IF c.statusCode = StatusOK
      THEN LET parsed == JSONParse(c.body) IN
           IF ~parsed.ok
             THEN [sessionId |-> sid, promise |-> c.promise, parsed |-> TRUE,
                   thrown |-> ErrorObject("SyntaxError", "JSON.parse")]
           ELSE IF parsed.kind = "null"
             THEN [sessionId |-> sid, promise |-> c.promise, parsed |-> TRUE,
                   thrown |-> ErrorObject("TypeError", "id of null")]
           ELSE [sessionId |-> sid,
                 promise |-> PromiseResolve(c.promise, parsed.id),
                 parsed |-> TRUE, thrown |-> Undefined]
      ELSE [sessionId |-> sid,
            promise |-> PromiseReject(c.promise, NewError(c.statusCode)),
            parsed |-> FALSE, thrown |-> Undefined]

\* An 'error' listener that reports a status instead of the error.
OnErrorRejectsStatus(c, e) == PromiseReject(c.promise, NewError(c.statusCode))

\* req.on('error') of either operation.
OnError(c, e) == PromiseReject(c.promise, e)

(* ------------------------------------------------------------------ *)
(* Actions                                                             *)
(* ------------------------------------------------------------------ *)

\* The record of a new invocation.  arg is the argument it was given and
\* sidAtCall the sessionId it saw; phase follows the request: none, sent,
\* receiving, ended, errored; response is the body the server sent, wire the
\* part of it not delivered yet; transportError is the error the transport
\* reported, if any.
NewCall(op, sid, arg, x) ==
    [op |-> op, arg |-> arg, sidAtCall |-> sid, promise |-> x.promise,
     phase |-> IF x.send THEN "sent" ELSE "none",
     statusCode |-> 0, response |-> <<>>, wire |-> <<>>, body |-> "",
     parsed |-> FALSE, thrown |-> Undefined, transportError |-> Undefined]

Send(x) ==
    IF x.send
      THEN Append(network, [call |-> Len(calls) + 1, path |-> x.path,
                            body |-> x.requestBody])
      ELSE network

Init ==
    /\ sessionId = Undefined
    /\ properties = EmptyProperties
    /\ calls = <<>>
    /\ network = <<>>
    /\ processed = <<>>
    /\ crashed = FALSE

\* A getSessionId that joins a provisioning request already in flight
\* instead of sending its own.
GetSessionIdDeduplicated ==
    /\ ~crashed
    /\ Len(calls) < MaxCalls
    /\ LET x == GetSessionIdExecutor(sessionId, properties)
           inFlight == \E j \in 1..Len(calls) :
                          /\ calls[j].op = "getSessionId"
                          /\ calls[j].phase \in {"sent", "receiving"}
           y == [x EXCEPT !.send = ~inFlight]
       IN /\ calls' = Append(calls, NewCall("getSessionId", sessionId, Undefined, y))
          /\ network' = Send(y)
    /\ UNCHANGED <<sessionId, properties, processed, crashed>>

GetSessionId ==
    /\ ~crashed
    /\ Len(calls) < MaxCalls
    /\ LET x == GetSessionIdExecutor(sessionId, properties) IN
         /\ calls' = Append(calls, NewCall("getSessionId", sessionId, Undefined, x))
         /\ network' = Send(x)
    /\ UNCHANGED <<sessionId, properties, processed, crashed>>

\* A generateToken that hands out again a token it has already obtained.
GenerateTokenCached ==
    /\ ~crashed
    /\ Len(calls) < MaxCalls
    /\ \E tokenOptions \in TokenOptionsInputs :
         LET x == GenerateTokenExecutor(sessionId, tokenOptions)
             earlier == {j \in 1..Len(calls) :
                            /\ calls[j].op = "generateToken"
                            /\ calls[j].promise.state = "fulfilled"}
             y == IF earlier = {} \/ ~x.send THEN x
                  ELSE [x EXCEPT !.send = FALSE,
                                 !.promise = calls[CHOOSE j \in earlier : TRUE].promise]
         IN /\ calls' = Append(calls, NewCall("generateToken", sessionId, tokenOptions, y))
            /\ network' = Send(y)
    /\ UNCHANGED <<sessionId, properties, processed, crashed>>

GenerateToken ==
    /\ ~crashed
    /\ Len(calls) < MaxCalls
    /\ \E tokenOptions \in TokenOptionsInputs :
         LET x == GenerateTokenExecutor(sessionId, tokenOptions) IN
           /\ calls' = Append(calls, NewCall("generateToken", sessionId, tokenOptions, x))
           /\ network' = Send(x)
    /\ UNCHANGED <<sessionId, properties, processed, crashed>>

\* The response head arrives: the https.request callback runs (body = '').
Response ==
    /\ ~crashed
    /\ \E i \in 1..Len(calls), r \in Responses :
         /\ calls[i].phase = "sent"
         /\ calls' = [calls EXCEPT ![i].phase = "receiving",
                                   ![i].statusCode = r.statusCode,
                                   ![i].response = r.body,
                                   ![i].wire = r.body,
                                   ![i].body = ""]
    /\ UNCHANGED <<sessionId, properties, network, processed, crashed>>

\* A 'data' listener that puts the new chunk in front of the body.
OnDataPrepends(body, d) == d \o body

\* body += d
OnData(body, d) == body \o d

\* res.on('data'): a chunk made of the next pieces of the response arrives.
Data ==
    /\ ~crashed
    /\ \E i \in 1..Len(calls) :
         /\ calls[i].phase = "receiving"
         /\ \E n \in 1..Len(calls[i].wire) :
              calls' = [calls EXCEPT
                          ![i].body = OnData(calls[i].body,
                                             Concat(SubSeq(calls[i].wire, 1, n))),
                          ![i].wire = SubSeq(calls[i].wire, n + 1, Len(calls[i].wire))]
    /\ UNCHANGED <<sessionId, properties, network, processed, crashed>>

OnEnd(sid, c) ==
    IF c.op = "getSessionId" THEN GetSessionIdOnEnd(sid, c)
    ELSE GenerateTokenOnEnd(sid, c)

\* An 'error' handling that sends the request once more.
ErrorWithRetry ==
    /\ ~crashed
    /\ \E i \in 1..Len(calls), e \in TransportErrors :
         /\ calls[i].phase \in {"sent", "receiving"}
         /\ IF Cardinality({k \in 1..Len(network) : network[k].call = i}) < 2
              THEN /\ calls' = [calls EXCEPT ![i].phase = "sent",
                                             ![i].response = <<>>,
                                             ![i].wire = <<>>,
                                             ![i].body = ""]
                   /\ network' = Append(network,
                          network[CHOOSE k \in 1..Len(network) : network[k].call = i])
              ELSE /\ calls' = [calls EXCEPT ![i].phase = "errored",
                                             ![i].response = <<>>,
                                             ![i].wire = <<>>,
                                             ![i].body = "",
                                             ![i].transportError = e,
                                             ![i].promise = OnError(calls[i], e)]
                   /\ network' = network
    /\ UNCHANGED <<sessionId, properties, processed, crashed>>

\* res.on('end').  An exception thrown by the listener is uncaught: it ends
\* the process unless the host has installed an uncaughtException handler.
End ==
    /\ ~crashed
    /\ \E i \in 1..Len(calls) :
         /\ calls[i].phase = "receiving"
         /\ calls[i].wire = <<>>
         /\ LET r == OnEnd(sessionId, calls[i]) IN
              /\ sessionId' = r.sessionId
              /\ calls' = [calls EXCEPT ![i].phase = "ended",
                                        ![i].promise = r.promise,
                                        ![i].parsed = r.parsed,
                                        ![i].thrown = r.thrown]
              /\ IF r.thrown # Undefined
                   THEN crashed' \in BOOLEAN
                   ELSE crashed' = crashed
         /\ processed' = Append(processed, i)
    /\ UNCHANGED <<properties, network>>

\* req.on('error'): the connection fails before the response head, or is
\* reset while the body is still arriving.  In the second case no 'end' is
\* dispatched any more, so the response, its undelivered data and the partial
\* body, which nothing can read again, are dropped.
Error ==
    /\ ~crashed
    /\ \E i \in 1..Len(calls), e \in TransportErrors :
         /\ calls[i].phase \in {"sent", "receiving"}
         /\ calls' = [calls EXCEPT ![i].phase = "errored",
                                   ![i].response = <<>>,
                                   ![i].wire = <<>>,
                                   ![i].body = "",
                                   ![i].transportError = e,
                                   ![i].promise = OnError(calls[i], e)]
    /\ UNCHANGED <<sessionId, properties, network, processed, crashed>>

Next ==
    \/ GetSessionId
    \/ GenerateToken
    \/ Response
    \/ Data
    \/ End
    \/ Error

Spec == Init /\ [][Next]_vars

\* Provisioning on a handle constructed with any of the properties inputs.
InitProperties ==
    /\ sessionId = Undefined
    /\ \E arg \in PropertiesInputs : properties = Constructor(arg)
    /\ calls = <<>>
    /\ network = <<>>
    /\ processed = <<>>
    /\ crashed = FALSE

NextProvisioning ==
    \/ GetSessionId
    \/ Response
    \/ Data
    \/ End
    \/ Error

SpecProvisioning == InitProperties /\ [][NextProvisioning]_vars

(* ------------------------------------------------------------------ *)
(* Properties                                                          *)
(* ------------------------------------------------------------------ *)

CallIds == 1..Len(calls)

IsGet(i) == calls[i].op = "getSessionId"
IsToken(i) == calls[i].op = "generateToken"

\* The invocation found sessionId set / unset.
CalledCached(i) == Truthy(calls[i].sidAtCall)
CalledUnset(i) == ~Truthy(calls[i].sidAtCall)

\* Requests on the wire that were sent by invocation i.
RequestsOf(i) == {k \in 1..Len(network) : network[k].call = i}

SessionRequests == {k \in 1..Len(network) : network[k].path = API_SESSIONS}

\* The response of invocation i has been processed completely.
Ended(i) == calls[i].phase = "ended"

\* Invocation i was answered 200 with a body that is a JSON object.
EndedOkObject(i) ==
    /\ Ended(i)
    /\ calls[i].statusCode = 200
    /\ JSONParse(calls[i].body).ok
    /\ JSONParse(calls[i].body).kind = "object"

\* The id member of the body received by invocation i.
ReceivedId(i) == JSONParse(calls[i].body).id

Fulfilled(v) == [state |-> "fulfilled", value |-> v]
Rejected(e) == [state |-> "rejected", value |-> e]

\* C1: a getSessionId call made while sessionId is set sends no request, and
\* two getSessionId calls in sequence on a fresh handle (the second made
\* after the first completed with 200) send exactly one request to
\* /api/sessions in total.
C1_CachedCallSendsNoRequest ==
    /\ \A i \in CallIds :
         (IsGet(i) /\ CalledCached(i)) => RequestsOf(i) = {}
    /\ (/\ Len(calls) = 2
        /\ IsGet(1) /\ IsGet(2)
        /\ CalledCached(2)) => Cardinality(SessionRequests) = 1

C3_CachedCallResolvesToCachedValue ==
    /\ \A i \in CallIds :
         (IsGet(i) /\ CalledCached(i)) =>
            calls[i].promise = Fulfilled(calls[i].sidAtCall)
    /\ (/\ Len(calls) >= 2
        /\ IsGet(1) /\ IsGet(2)
        /\ CalledCached(2)) =>
           /\ calls[1].promise.state = "fulfilled"
           /\ calls[2].promise.state = "fulfilled"
           /\ calls[1].promise.value = calls[2].promise.value

\* C3 witness: the second of two sequential calls found "A" cached, and the
\* server has since answered its request with another id.
C3_CachedCallAnsweredLater ==
    /\ Len(calls) >= 2
    /\ IsGet(1) /\ IsGet(2)
    /\ calls[2].sidAtCall = Str("A")
    /\ EndedOkObject(2)
    /\ ReceivedId(2) = Str("B")
    /\ calls[2].promise = Fulfilled(Str("A"))

\* A provisioning response that stores an id.
IsSessionWriter(i) == IsGet(i) /\ EndedOkObject(i)

\* C4: of the provisioning responses answered 200, the one processed last
\* determines sessionId, whatever the order in which the requests were sent;
\* and each call made while sessionId was unset is fulfilled with the id of
\* its own response.
C4_LastProcessedResponseWins ==
    /\ LET writers == SelectSeq(processed, IsSessionWriter) IN
         writers # <<>> => sessionId = ReceivedId(writers[Len(writers)])
    /\ \A i \in CallIds :
         (IsGet(i) /\ CalledUnset(i) /\ EndedOkObject(i)) =>
            calls[i].promise = Fulfilled(ReceivedId(i))

\* C4 witness: two concurrent calls, the first answered "A" and the second
\* "B"; the second response was processed first and "A" is cached.
C4_RaceSecondResponseFirst ==
    /\ Len(calls) >= 2
    /\ IsGet(1) /\ IsGet(2)
    /\ CalledUnset(1) /\ CalledUnset(2)
    /\ EndedOkObject(1) /\ EndedOkObject(2)
    /\ ReceivedId(1) = Str("A") /\ ReceivedId(2) = Str("B")
    /\ processed = <<2, 1>>
    /\ sessionId = Str("A")
    /\ calls[1].promise = Fulfilled(Str("A"))
    /\ calls[2].promise = Fulfilled(Str("B"))

\* C5: every getSessionId call made while sessionId is unset sends its own
\* request to /api/sessions: exactly one per call, so N such calls put N
\* requests on the wire.
C5_NoDeduplication ==
    LET unset == {i \in CallIds : IsGet(i) /\ CalledUnset(i)} IN
      /\ \A i \in unset :
           /\ Cardinality(RequestsOf(i)) = 1
           /\ \A k \in RequestsOf(i) : network[k].path = API_SESSIONS
           /\ calls[i].phase # "none"
      /\ Cardinality({k \in SessionRequests : network[k].call \in unset})
            = Cardinality(unset)

\* C5 witness: two getSessionId calls are in flight at once, each with its
\* own request.
C5_TwoRequestsInFlight ==
    \E i, j \in CallIds :
       /\ i # j
       /\ IsGet(i) /\ IsGet(j)
       /\ CalledUnset(i) /\ CalledUnset(j)
       /\ calls[i].phase = "sent" /\ calls[j].phase = "sent"
       /\ RequestsOf(i) # RequestsOf(j)
       /\ Cardinality(SessionRequests) >= 2

\* C6: a settled promise keeps its outcome and its value: no later event of
\* the call changes it.
C6_SettlesAtMostOnce ==
    [][\A i \in CallIds :
          Settled(calls[i].promise) => calls'[i].promise = calls[i].promise]_vars

\* C6 witness: a call whose promise was fulfilled from the cache has since
\* been answered 400, so that a rejection of the settled promise was
\* attempted.
C6_SecondSettlementAttempted ==
    \E i \in CallIds :
       /\ IsGet(i) /\ CalledCached(i)
       /\ Ended(i) /\ calls[i].statusCode = 400
       /\ calls[i].promise = Fulfilled(calls[i].sidAtCall)

\* C7: a call whose request has been answered completely, or has failed in
\* the transport, has a settled promise.
C7_DeliveredCallIsSettled ==
    \A i \in CallIds :
       calls[i].phase \in {"ended", "errored"} => Settled(calls[i].promise)

\* C8: processing a 200 response whose body fails JSON parsing rejects the
\* promise of that call and leaves sessionId unchanged.
C8_MalformedBodyRejects ==
    [][\A i \in CallIds :
          (/\ calls[i].phase = "receiving"
           /\ calls'[i].phase = "ended"
           /\ calls[i].statusCode = 200
           /\ ~JSONParse(calls[i].body).ok)
          => /\ calls'[i].promise.state = "rejected"
             /\ sessionId' = sessionId]_vars

\* The decimal text of the status codes the server answers with.
StatusText(n) == IF n = 400 THEN "400" ELSE "200"

\* C9: a call (getSessionId made with sessionId unset, or generateToken)
\* whose response ended with a status other than 200 is rejected with an
\* Error carrying that status code, and its body has not been parsed.
C9_StatusCodePropagates ==
    \A i \in CallIds :
       (/\ Ended(i)
        /\ calls[i].statusCode # 200
        /\ IsGet(i) => CalledUnset(i))
       => /\ calls[i].promise =
               Rejected(ErrorObject("Error", StatusText(calls[i].statusCode)))
          /\ ~calls[i].parsed
          /\ calls[i].thrown = Undefined

\* C9 witness: both operations have been answered 400, one of them with a
\* body that is not JSON.
C9_BothAnswered400 ==
    /\ \E i \in CallIds :
          /\ IsGet(i) /\ CalledUnset(i) /\ Ended(i)
          /\ calls[i].statusCode = 400
          /\ calls[i].promise.state = "rejected"
    /\ \E i \in CallIds :
          /\ IsToken(i) /\ Ended(i)
          /\ calls[i].statusCode = 400
          /\ ~JSONParse(calls[i].body).ok
          /\ calls[i].promise.state = "rejected"

\* C10: a call (getSessionId made with sessionId unset, or generateToken)
\* whose request failed in the transport before any status was received is
\* rejected with exactly the error the transport reported.
C10_TransportErrorPropagates ==
    \A i \in CallIds :
       (/\ calls[i].phase = "errored"
        /\ calls[i].statusCode = 0
        /\ IsGet(i) => CalledUnset(i))
       => /\ calls[i].transportError \in TransportErrors
          /\ calls[i].promise = Rejected(calls[i].transportError)

\* C10 witness: both operations have failed in the transport before a
\* status arrived, with different errors.
C10_BothFailedInTransport ==
    \E i, j \in CallIds :
       /\ IsGet(i) /\ CalledUnset(i)
       /\ IsToken(j)
       /\ calls[i].phase = "errored" /\ calls[i].statusCode = 0
       /\ calls[j].phase = "errored" /\ calls[j].statusCode = 0
       /\ calls[i].promise.state = "rejected"
       /\ calls[j].promise.state = "rejected"
       /\ calls[i].transportError # calls[j].transportError

\* The invocation was given an options object.
HasOptions(i) == calls[i].arg # Undefined

\* C11: every generateToken call given an options object has sent its own
\* request to /api/tokens, whatever earlier calls returned, and a call
\* answered 200 with a JSON object is fulfilled with the id of that answer.
C11_TokenNeverCached ==
    \A i \in CallIds :
       (IsToken(i) /\ HasOptions(i)) =>
          /\ Cardinality(RequestsOf(i)) = 1
          /\ \A k \in RequestsOf(i) : network[k].path = API_TOKENS
          /\ EndedOkObject(i) => calls[i].promise = Fulfilled(ReceivedId(i))

\* C11 witness: a token call answered "A" is followed by one answered "B";
\* two requests went to /api/tokens and each call has its own token.
C11_TwoTokensMinted ==
    /\ Len(calls) >= 2
    /\ IsToken(1) /\ IsToken(2)
    /\ processed = <<1, 2>>
    /\ EndedOkObject(1) /\ EndedOkObject(2)
    /\ calls[1].promise = Fulfilled(Str("A"))
    /\ calls[2].promise = Fulfilled(Str("B"))
    /\ Cardinality({k \in 1..Len(network) : network[k].path = API_TOKENS}) = 2

\* C12: a generateToken call given an options object while sessionId is
\* unset sends nothing to /api/sessions and exactly one request to
\* /api/tokens, without a session member; its promise stays pending until
\* the answer (or a transport error) is processed, and a 200 answer with a
\* JSON object fulfils it.
C12_ValidationDeferredToServer ==
    \A i \in CallIds :
       (IsToken(i) /\ HasOptions(i) /\ calls[i].sidAtCall = Undefined) =>
          /\ Cardinality(RequestsOf(i)) = 1
          /\ \A k \in RequestsOf(i) :
                /\ network[k].path = API_TOKENS
                /\ "session" \notin DOMAIN network[k].body
          /\ calls[i].phase \in {"sent", "receiving"} =>
                calls[i].promise.state = "pending"
          /\ EndedOkObject(i) => calls[i].promise = Fulfilled(ReceivedId(i))
          /\ (Ended(i) /\ calls[i].statusCode = 400) =>
                calls[i].promise.state = "rejected"

\* C12 witness: on a handle without sessionId a token request was sent and
\* the server answered it 200.
C12_TokenWithoutSessionAccepted ==
    \E i \in CallIds :
       /\ IsToken(i) /\ HasOptions(i)
       /\ calls[i].sidAtCall = Undefined
       /\ sessionId = Undefined
       /\ SessionRequests = {}
       /\ EndedOkObject(i)
       /\ calls[i].promise = Fulfilled(Str("A"))

Expected(property, default) ==
    IF property = Undefined \/ property = Str("") THEN default ELSE property

\* C14: every request to /api/sessions carries, for each of the four
\* properties, the value of the handle's property when it is set and the
\* default (ROUTED, MANUAL, BEST_FIT, "") otherwise; with empty properties
\* the body is exactly the four defaults; and no step changes the handle's
\* properties.
C14_DefaultSubstitution ==
    [][/\ properties' = properties
       /\ \A k \in 1..Len(network') :
             network'[k].path = "/api/sessions" =>
                /\ network'[k].body =
                     [mediaMode |-> Expected(properties.mediaMode, Str("ROUTED")),
                      recordingMode |-> Expected(properties.recordingMode, Str("MANUAL")),
                      defaultRecordingLayout |->
                          Expected(properties.defaultRecordingLayout, Str("BEST_FIT")),
                      defaultCustomLayout |->
                          Expected(properties.defaultCustomLayout, Str(""))]
                /\ properties = EmptyProperties =>
                      network'[k].body =
                        [mediaMode |-> Str("ROUTED"), recordingMode |-> Str("MANUAL"),
                         defaultRecordingLayout |-> Str("BEST_FIT"),
                         defaultCustomLayout |-> Str("")]]_vars

\* C14 witness: a handle with mediaMode and defaultCustomLayout set and the
\* other two properties unset has sent a provisioning request mixing the
\* supplied values and the defaults, and the request has been answered.
C14_MixedPropertiesSent ==
    /\ properties.mediaMode = Str("RELAYED")
    /\ properties.recordingMode = Undefined
    /\ Len(network) >= 1
    /\ network[1].body.mediaMode = Str("RELAYED")
    /\ network[1].body.recordingMode = Str("MANUAL")
    /\ network[1].body.defaultRecordingLayout = Str("BEST_FIT")
    /\ network[1].body.defaultCustomLayout = Str("layout1")
    /\ Len(calls) >= 1
    /\ Ended(1)

\* C15: the body of a token request carries the sessionId the call saw, the
\* supplied role or PUBLISHER, and the supplied data or "": for {} it is
\* {session: <sessionId>, role: PUBLISHER, data: ""}.
C15_DefaultTokenOptions ==
    \A i \in CallIds :
       (IsToken(i) /\ HasOptions(i)) =>
          \A k \in RequestsOf(i) :
             LET body == network[k].body IN
               /\ {"role", "data"} \subseteq DOMAIN body
               /\ DOMAIN body \subseteq {"session", "role", "data"}
               /\ body["role"] = Expected(calls[i].arg.role, Str("PUBLISHER"))
               /\ body["data"] = Expected(calls[i].arg.data, Str(""))
               /\ CalledCached(i) =>
                     /\ "session" \in DOMAIN body
                     /\ body["session"] = calls[i].sidAtCall
               /\ (calls[i].arg = EmptyOptions /\ calls[i].sidAtCall = Str("A")) =>
                     body = [m \in {"session", "role", "data"} |->
                               IF m = "session" THEN Str("A")
                               ELSE IF m = "role" THEN Str("PUBLISHER")
                               ELSE Str("")]

\* C15 witness: generateToken({}) was called on a handle whose sessionId is
\* "A", and its request is on the wire with the default role and data.
C15_EmptyOptionsSent ==
    \E i \in CallIds :
       /\ IsToken(i)
       /\ calls[i].arg = EmptyOptions
       /\ calls[i].sidAtCall = Str("A")
       /\ \E k \in RequestsOf(i) :
             /\ network[k].path = API_TOKENS
             /\ network[k].body["session"] = Str("A")
             /\ network[k].body["role"] = Str("PUBLISHER")

\* C16: an invocation sends at most one request, at the moment it is made:
\* no later step (a non-200 answer, a parse failure, a transport error) puts
\* another request of that invocation on the wire.
C16_NoRetry ==
    [][/\ \A i \in 1..Len(calls') :
             Cardinality({k \in 1..Len(network') : network'[k].call = i}) <= 1
       /\ Len(calls') = Len(calls) => network' = network
       /\ Len(network') <= Len(network) + 1]_vars

\* C16 witness: one call was answered 400 and another failed in the
\* transport, and the wire has seen exactly one request for each.
C16_FailedCallsSentOnce ==
    \E i, j \in CallIds :
       /\ Ended(i) /\ calls[i].statusCode = 400
       /\ calls[j].phase = "errored"
       /\ Cardinality(RequestsOf(i)) = 1
       /\ Cardinality(RequestsOf(j)) = 1
       /\ Len(network) = 2

\* A step in which call i received a chunk of its response.
DataStep(i) ==
    /\ i <= Len(calls)
    /\ calls[i].phase = "receiving"
    /\ calls'[i].phase = "receiving"
    /\ calls'[i] # calls[i]

\* C17: a chunk only extends the body of its own call: it settles nothing,
\* parses nothing and does not touch sessionId or another call; parsing
\* happens in the step that processes the end of the response; and the body
\* received so far, followed by the part of the response still to come, is
\* the response the server sent, so that the text parsed at the end is the
\* response in the order it was sent.
C17_ParseOnlyAfterEnd ==
    [][\A i \in 1..Len(calls') :
          /\ DataStep(i) =>
                /\ calls'[i].promise = calls[i].promise
                /\ ~calls'[i].parsed
                /\ calls'[i].thrown = Undefined
                /\ sessionId' = sessionId
                /\ \A j \in 1..Len(calls) : j # i => calls'[j] = calls[j]
          /\ calls'[i].parsed => calls'[i].phase = "ended"
          /\ calls'[i].phase \in {"receiving", "ended"} =>
                calls'[i].body \o Concat(calls'[i].wire) = Concat(calls'[i].response)
          /\ calls'[i].phase = "ended" => calls'[i].wire = <<>>]_vars

\* C17 witness: two responses are arriving at once; the first has been
\* received in full and parsed, the second has delivered its first chunk
\* only and is neither parsed nor settled.
C17_InterleavedChunks ==
    /\ Len(calls) >= 2
    /\ IsGet(1) /\ IsGet(2)
    /\ CalledUnset(2)
    /\ Ended(1)
    /\ calls[1].response = ObjectWithId("A")
    /\ calls[1].parsed
    /\ calls[1].promise = Fulfilled(Str("A"))
    /\ calls[2].phase = "receiving"
    /\ calls[2].response = ObjectWithId("B")
    /\ calls[2].body = ObjectHead("B")
    /\ calls[2].wire = <<ObjectTail>>
    /\ calls[2].promise.state = "pending"

\* A step in which something happened to call i (it was made, answered,
\* fed a chunk, ended or failed).
StepOf(i) == i > Len(calls) \/ calls'[i] # calls[i]

\* C18: sessionId is unset or the id carried by a processed 200 response of
\* a getSessionId request; and every step of a generateToken call, every
\* transport error and every getSessionId end with a status other than 200
\* leaves sessionId unchanged.
C18_OnlySessionResponseWrites ==
    [][/\ \/ sessionId' = Undefined
          \/ \E i \in 1..Len(calls') :
                /\ calls'[i].op = "getSessionId"
                /\ calls'[i].phase = "ended"
                /\ calls'[i].statusCode = 200
                /\ JSONParse(calls'[i].body).kind = "object"
                /\ sessionId' = JSONParse(calls'[i].body).id
       /\ \A i \in 1..Len(calls') :
             (/\ StepOf(i)
              /\ \/ calls'[i].op = "generateToken"
                 \/ calls'[i].phase = "errored"
                 \/ calls'[i].phase = "ended" /\ calls'[i].statusCode # 200)
             => sessionId' = sessionId]_vars

\* C18 witness: after provisioning cached "A", a token request was answered
\* 200 with id "B"; sessionId is still "A".
C18_TokenResponseLeavesSessionId ==
    \E i, j \in CallIds :
       /\ IsGet(i) /\ EndedOkObject(i) /\ ReceivedId(i) = Str("A")
       /\ IsToken(j) /\ EndedOkObject(j) /\ ReceivedId(j) = Str("B")
       /\ processed = <<i, j>>
       /\ sessionId = Str("A")

\* C19: the session member of a token request is the sessionId at the moment
\* of the call (absent when it was unset), and a request that has been sent
\* is never altered, whatever sessionId becomes afterwards.
C19_SessionReferenceFixedAtCall ==
    [][/\ \A k \in 1..Len(network) : network'[k] = network[k]
       /\ \A k \in (Len(network) + 1)..Len(network') :
             network'[k].path = API_TOKENS =>
                /\ network'[k].call = Len(calls')
                /\ IF sessionId = Undefined
                     THEN "session" \notin DOMAIN network'[k].body
                     ELSE /\ "session" \in DOMAIN network'[k].body
                          /\ network'[k].body["session"] = sessionId]_vars

\* C19 witness: generateToken was called while the provisioning request was
\* in flight; provisioning has since cached "A", and the token request still
\* carries no session member.
C19_TokenSentBeforeProvisioning ==
    /\ Len(calls) >= 2
    /\ IsGet(1) /\ IsToken(2) /\ HasOptions(2)
    /\ calls[2].sidAtCall = Undefined
    /\ EndedOkObject(1)
    /\ sessionId = Str("A")
    /\ \E k \in RequestsOf(2) : "session" \notin DOMAIN network[k].body

====
